---- MODULE Spec2Model ----
(***************************************************************************)
(* Model of src/tex/supercop.ts: the script that loads the per-host        *)
(* SUPERCOP "data" logs under a root directory, reduces them to the matrix *)
(* data[impl][machine] and prints a LaTeX comparison table.                *)
(***************************************************************************)
EXTENDS Integers, Sequences, FiniteSets, TLC

VARIABLES files, implOrder, implMap, pc, todo, data, stdout, table

vars == <<files, implOrder, implMap, pc, todo, data, stdout, table>>

-----------------------------------------------------------------------------
(* Bounds of the model                                                     *)

\* number of hosts of the fixed host ordering that the model keeps
NumMachines == 2
\* cycle counts in log lines are the one-digit tokens "1" .. "MaxCycles"
MaxCycles == 2
\* total number of lines over all data files of an arbitrary log directory
MaxLines == 2

-----------------------------------------------------------------------------
(* Static tables of the script                                             *)

FACTOR == 1000

AllMachines ==
  <<"kivsa", "nakhash", "aljamus", "nuc", "akrav", "akavish", "pil", "arnevet">>

machineOrder == SubSeq(AllMachines, 1, NumMachines)

Machines == {machineOrder[k] : k \in 1..Len(machineOrder)}

machinenameMap ==
  [m \in {AllMachines[k] : k \in 1..Len(AllMachines)} |->
     CASE m = "kivsa"   -> "1900X"
       [] m = "nakhash" -> "5800X"
       [] m = "aljamus" -> "5950X"
       [] m = "nuc"     -> "i7 6G"
       [] m = "akrav"   -> "i7 10G"
       [] m = "akavish" -> "i9 10G"
       [] m = "pil"     -> "i7 11G"
       [] OTHER         -> "i9 12G"]

\* implementation identifiers that occur in the logs of the model
SANDY == "crypto_scalarmult/curve25519/sandy2x"
DONNA == "crypto_scalarmult/curve25519/donna"
LIBSECP == "crypto_scalarmult/secp256k1/libsecp256k1-ots"

Impls == {SANDY, DONNA, LIBSECP}

\* implementations[0].split("/")[1]
folderFolder(ii) == IF ii = LIBSECP THEN "secp256k1" ELSE "curve25519"

CAPTION_MAP ==
  [c \in {"curve25519", "p256", "p384", "secp256k1"} |->
     CASE c = "curve25519" -> [heading |-> "Curve25519"]
       [] c = "p256"       -> [heading |-> "P-256"]
       [] c = "p384"       -> [heading |-> "P-384"]
       [] OTHER            -> [heading |-> "secp256k1"]]

\* the script's implOrder and implMap, restricted to Impls
implOrderSrc == << <<SANDY, DONNA>>, <<LIBSECP>> >>

implMapSrc ==
  [ii \in Impls |->
     CASE ii = SANDY -> [name |-> "sandy2x~\\cite{sandy2x}", field |-> "av"]
       [] ii = DONNA -> [name |-> "donna~\\cite{curve25519-donna}", field |-> "av"]
       [] OTHER      -> [name |-> "libsecp256k1~\\cite{libsecp256k1}", field |-> "sa"]]

languageMap ==
  [f \in {"c port", "c", "c64", "c52", "c51", "av", "a64", "a51", "sa"} |->
     CASE f \in {"c port", "c", "c64", "c52", "c51"} -> "C"
       [] f = "av" -> "asm-v"
       [] OTHER    -> "asm"]

fieldToStr(implName) ==
  IF implName \notin DOMAIN implMap
    THEN "-" \o implName
    ELSE LET field == implMap[implName].field
         IN  IF field \in DOMAIN languageMap THEN languageMap[field] ELSE field

-----------------------------------------------------------------------------
(* JavaScript numbers.  A value is val^(1/deg), or NaN, Infinity or         *)
(* undefined.  Cycle counts have deg = 1; Math.pow(mul, 1 / n) has deg = n  *)
(* (real arithmetic: the rounding of doubles is not modelled).              *)

Num(n) == [tag |-> "number", val |-> n, deg |-> 1]
NaN == [tag |-> "NaN", val |-> 0, deg |-> 1]
Infinity == [tag |-> "Infinity", val |-> 0, deg |-> 1]
undefined == [tag |-> "undefined", val |-> 0, deg |-> 1]

IsNumber(x) == x.tag = "number"

RECURSIVE Pow(_, _)
Pow(b, e) == IF e = 0 THEN 1 ELSE b * Pow(b, e - 1)

\* m^n <= y, without computing m^n
RECURSIVE LePow(_, _, _)
LePow(m, n, y) ==
  IF n = 0 THEN 1 <= y
  ELSE IF m = 0 THEN TRUE
  ELSE LePow(m, n - 1, y \div m)

\* the largest r in lo..hi with r^n <= y   (lo^n <= y is assumed)
RECURSIVE RootSearch(_, _, _, _)
RootSearch(y, n, lo, hi) ==
  IF lo = hi THEN lo
  ELSE LET mid == (lo + hi + 1) \div 2
       IN  IF LePow(mid, n, y) THEN RootSearch(y, n, mid, hi)
                               ELSE RootSearch(y, n, lo, mid - 1)

\* floor(y^(1/n))
IRoot(y, n) == RootSearch(y, n, 0, y)

\* Math.floor of a number value
Floor(x) == IRoot(x.val, x.deg)

\* a < b for two number values
Less(a, b) == Pow(a.val, b.deg) < Pow(b.val, a.deg)

\* a == b of JavaScript, as printCycles uses it (NaN equals nothing)
EqJS(a, b) ==
  /\ IsNumber(a)
  /\ IsNumber(b)
  /\ Pow(a.val, b.deg) = Pow(b.val, a.deg)

\* a * b
Mul(a, b) ==
  IF IsNumber(a) /\ IsNumber(b) /\ a.deg = 1 /\ b.deg = 1
    THEN Num(a.val * b.val)
    ELSE NaN

\* Math.pow(x, 1 / n)
Math_pow(x, n) ==
  IF IsNumber(x) THEN [tag |-> "number", val |-> x.val, deg |-> n * x.deg]
                 ELSE NaN

\* Math.min(...xs): Infinity for no argument, NaN when an argument is not a number
RECURSIVE Math_min(_)
Math_min(xs) ==
  IF xs = <<>> THEN Infinity
  ELSE LET x == Head(xs)
           r == Math_min(Tail(xs))
       IN  IF ~IsNumber(x) \/ r.tag = "NaN" THEN NaN
           ELSE IF r.tag = "Infinity" THEN x
           ELSE IF Less(r, x) THEN r ELSE x

\* (c / small).toFixed(2), in hundredths; c and small are of one column (same deg)
RatioFixed2(c, small) ==
  IF ~IsNumber(c) \/ ~IsNumber(small) \/ small.val = 0 THEN NaN
  ELSE LET n == c.deg
           t == IRoot((Pow(200, n) * c.val) \div small.val, n)  \* floor(200 c / small)
       IN  Num((t + 1) \div 2)

\* (c / FACTOR).toFixed(0), the number in front of "k"
CyclesFixed0(c) ==
  IF ~IsNumber(c) THEN NaN
  ELSE Num((Floor(c) + FACTOR \div 2) \div FACTOR)

-----------------------------------------------------------------------------
(* Log lines, the record parser and the reduction of one data file         *)

\* A log line, by the fields that decide what the script does with it:
\*   objsize  the line contains the text "objsize"
\*   host, impl, cycles   the tokens at the places of the named groups
\*   status   the token before the cycle count ("other": the line has not
\*            the shape of the pattern)
Line(objsize, host, impl, status, cycles) ==
  [objsize |-> objsize, host |-> host, impl |-> impl, status |-> status,
   cycles |-> cycles]

\* Number(g.cycles) of a token of decimal digits
RECURSIVE Number(_)
Number(digits) ==
  IF digits = <<>> THEN 0
  ELSE 10 * Number(SubSeq(digits, 1, Len(digits) - 1)) + digits[Len(digits)]

\* DB_REG_OK.exec(line)?.groups : the named groups, or undefined
DB_REG_OK(line) ==
  IF line.status \in {"ok", "unknown"}
    THEN [matched |-> TRUE, host |-> line.host, impl |-> line.impl,
          cycles |-> line.cycles]
    ELSE [matched |-> FALSE, host |-> "", impl |-> "", cycles |-> <<>>]

\* the records of one data file
datafile(lines) ==
  LET noObjsize(line) == ~line.objsize
      isGroup(g) == g.matched
      carry(g) == [impl |-> g.impl, cycles |-> Number(g.cycles), machine |-> g.host]
      kept == SelectSeq(lines, noObjsize)
      groups == SelectSeq([k \in 1..Len(kept) |-> DB_REG_OK(kept[k])], isGroup)
  IN  [k \in 1..Len(groups) |-> carry(groups[k])]

\* lodash groupBy(records, "impl")
groupBy(records) ==
  [i \in {records[k].impl : k \in 1..Len(records)} |->
     LET isImpl(r) == r.impl = i IN SelectSeq(records, isImpl)]

\* minBy as a slip would have it: the least cycles, but the host of the first record
RECURSIVE leastCycles(_)
leastCycles(values) ==
  IF Len(values) = 1 THEN values[1].cycles
  ELSE LET rest == leastCycles(Tail(values))
       IN  IF rest < Head(values).cycles THEN rest ELSE Head(values).cycles

minByFirstHost(values) ==
  [impl |-> values[1].impl, cycles |-> leastCycles(values),
   machine |-> values[1].machine]

\* lodash minBy(values, "cycles"): the first record with the least cycles
RECURSIVE minBy(_)
minBy(values) ==
  IF Len(values) = 1 THEN values[1]
  ELSE LET rest == minBy(Tail(values))
       IN  IF rest.cycles < Head(values).cycles THEN rest ELSE Head(values)

\* lodash set(acc, `${impl}.${machine}`, cycles)
set(acc, impl, machine, cycles) ==
  LET old == IF impl \in DOMAIN acc THEN acc[impl] ELSE <<>>
      new == [m \in DOMAIN old \cup {machine} |->
                IF m = machine THEN cycles ELSE old[m]]
  IN  [i \in DOMAIN acc \cup {impl} |-> IF i = impl THEN new ELSE acc[i]]

\* one step of the reduce over the host directories: Object.entries(grouped).forEach
RECURSIVE setAll(_, _, _)
setAll(acc, grouped, todoImpls) ==
  IF todoImpls = {} THEN acc
  ELSE LET impl == CHOOSE i \in todoImpls : TRUE
           best == minBy(grouped[impl])
       IN  setAll(set(acc, impl, best.machine, best.cycles), grouped,
                  todoImpls \ {impl})

reduceHost(acc, lines) ==
  LET grouped == groupBy(datafile(lines))
  IN  setAll(acc, grouped, DOMAIN grouped)

-----------------------------------------------------------------------------
(* genBarTable                                                             *)

\* byMachine[machine]
Get(byMachine, machine) ==
  IF machine \in DOMAIN byMachine THEN Num(byMachine[machine]) ELSE undefined

\* machineOrder.reduce((a, m) => a * byMachine[m], 1), over the machines ms
RECURSIVE mul(_, _, _)
mul(byMachine, ms, a) ==
  IF ms = <<>> THEN a
  ELSE mul(byMachine, Tail(ms), Mul(a, Get(byMachine, Head(ms))))

\* meanOf with the root one degree short
meanOfShortRoot(byMachine) ==
  Math_pow(mul(byMachine, machineOrder, Num(1)), Len(machineOrder) - 1)

\* the geometric mean of one row
meanOf(byMachine) ==
  Math_pow(mul(byMachine, machineOrder, Num(1)), Len(machineOrder))

\* filtered keeping only the implementations with a value for every machine
filteredComplete(implementations, acc) ==
  LET complete(ii) == ii \in DOMAIN acc /\ Machines \subseteq DOMAIN acc[ii]
  IN  SelectSeq(implementations, complete)

\* d: the implementations of a section that are keys of the matrix, in order
filtered(implementations, acc) ==
  LET present(ii) == ii \in DOMAIN acc IN SelectSeq(implementations, present)

meanByImplementation(d, acc) ==
  [iname \in {d[k] : k \in 1..Len(d)} |-> meanOf(acc[iname])]

smallestMean(d, acc) ==
  LET means == meanByImplementation(d, acc)
  IN  Math_min([k \in 1..Len(d) |-> means[d[k]]])

\* smallestImplByMachine over every implementation of the matrix
RECURSIVE SeqOf(_)
SeqOf(S) ==
  IF S = {} THEN <<>>
  ELSE LET x == CHOOSE y \in S : TRUE IN <<x>> \o SeqOf(S \ {x})

smallestOfAllSections(d, acc) ==
  [machine \in Machines |->
     LET all == SeqOf(DOMAIN acc)
     IN  Math_min([k \in 1..Len(all) |-> Get(acc[all[k]], machine)])]

\* smallestImplByMachine taking the value of the first row
smallestFirstRow(d, acc) ==
  [machine \in Machines |->
     IF d = <<>> THEN Infinity ELSE Get(acc[d[1]], machine)]

smallestImplByMachine(d, acc) ==
  [machine \in Machines |->
     Math_min([k \in 1..Len(d) |-> Get(acc[d[k]], machine)])]

printCycles(c, small) ==
  [isSmallest |-> EqJS(c, small),
   cyclesStr  |-> CyclesFixed0(c),
   ratio      |-> RatioFixed2(c, small)]

\* the block of one section: the heading and one row per implementation of d
section(implementations, acc) ==
  LET d == filtered(implementations, acc)
      means == meanByImplementation(d, acc)
      least == smallestMean(d, acc)
      smallest == smallestImplByMachine(d, acc)
      row(iname) ==
        [iname |-> iname,
         name  |-> implMap[iname].name,
         field |-> fieldToStr(iname),
         cells |-> [machine \in Machines |->
                      printCycles(Get(acc[iname], machine), smallest[machine])],
         mean  |-> printCycles(means[iname], least)]
  IN  [heading  |-> CAPTION_MAP[folderFolder(implementations[1])].heading,
       multirow |-> Len(implementations),
       rows     |-> [k \in 1..Len(d) |-> row(d[k])]]

\* genBarTable() throws: an implementation of a section is not in implMap
genBarTableThrows ==
  \E s \in 1..Len(implOrder) :
    \/ implOrder[s] = <<>>
    \/ folderFolder(implOrder[s][1]) \notin DOMAIN CAPTION_MAP
    \/ \E k \in 1..Len(implOrder[s]) : implOrder[s][k] \notin DOMAIN implMap

genBarTable(acc) ==
  [head |-> [k \in 1..Len(machineOrder) |-> machinenameMap[machineOrder[k]]],
   meat |-> [s \in 1..Len(implOrder) |-> section(implOrder[s], acc)]]

-----------------------------------------------------------------------------
(* Inputs: the directory tree under the root and the static configuration  *)

\* a directory of the root that is not in machineOrder
LAPTOP == "laptop"

CycleTokens == {<<c>> : c \in 1..MaxCycles}

OkLine(host, impl, cycles) == Line(FALSE, host, impl, "ok", cycles)

\* the lines of an arbitrary log: runs of one implementation with status ok
\* or unknown on any host, an objsize line and a line of another shape
LogLines ==
  {Line(FALSE, h, SANDY, st, c) :
     h \in Machines, st \in {"ok", "unknown"}, c \in CycleTokens}
  \cup {Line(TRUE, machineOrder[1], SANDY, "ok", <<1>>),
        Line(FALSE, machineOrder[1], SANDY, "other", <<1>>)}

Dir(lines) == [hasData |-> TRUE, lines |-> lines]
NoData == [hasData |-> FALSE, lines |-> <<>>]

\* the ways to cut k lines into one piece per host of machineOrder
Cuts(k) ==
  {c \in [0..NumMachines -> 0..k] :
     /\ c[0] = 0
     /\ c[NumMachines] = k
     /\ \A j \in 1..NumMachines : c[j - 1] <= c[j]}

\* the tree whose host directories hold the pieces of the lines s cut at c,
\* beside a directory that is not in machineOrder
LogTree(s, c) ==
  [m \in Machines \cup {LAPTOP} |->
     IF m = LAPTOP THEN Dir(<<OkLine(LAPTOP, SANDY, <<1>>)>>)
     ELSE LET j == CHOOSE n \in 1..NumMachines : machineOrder[n] = m
          IN  Dir(SubSeq(s, c[j - 1] + 1, c[j]))]

\* the same tree where the hosts without lines have no directory, or a
\* directory without data file
Layouts == {"nodir", "nodata"}

Layout(tree, layout) ==
  LET empty == {m \in DOMAIN tree : tree[m].lines = <<>>}
  IN  CASE layout = "nodir"  -> [m \in DOMAIN tree \ empty |-> tree[m]]
        [] layout = "nodata" ->
             [m \in DOMAIN tree |-> IF m \in empty THEN NoData ELSE tree[m]]
        [] OTHER -> tree

\* the hosts an implementation was benchmarked on, with its cycle counts
Everywhere == [Machines -> CycleTokens]
FirstOnly == {[m \in {machineOrder[1]} |-> c] : c \in CycleTokens}
Nowhere == {<<>>}
Constant == {[m \in Machines |-> c] : c \in CycleTokens}

\* benchmark results: every host file has one ok line of its own host for
\* each implementation benchmarked on it (p[i]: the hosts and counts of i)
ResultTree(p) ==
  [m \in Machines |->
     LET has(i) == m \in DOMAIN p[i]
         on == SelectSeq(<<SANDY, DONNA, LIBSECP>>, has)
     IN  Dir([k \in 1..Len(on) |-> OkLine(m, on[k], p[on[k]][m])])]

Config(order, map) == [implOrder |-> order, implMap |-> map]

ConfigSrc == Config(implOrderSrc, implMapSrc)

\* implMap without the entry of one implementation of implOrder; implMap with
\* an entry that no section uses (as the script's has several)
Configs ==
  { ConfigSrc,
    Config(implOrderSrc, [ii \in Impls \ {LIBSECP} |-> implMapSrc[ii]]),
    Config(implOrderSrc, [ii \in Impls \ {DONNA} |-> implMapSrc[ii]]),
    Config(<< <<SANDY, DONNA>> >>, implMapSrc) }

Start ==
  /\ pc = "readdirSync"
  /\ todo = {}
  /\ data = <<>>
  /\ stdout = <<>>
  /\ table = <<>>

\* arbitrary logs, at most MaxLines lines in all, under the script's configuration
InitLogs ==
  /\ \E k \in 0..MaxLines : \E s \in [1..k -> LogLines] : \E c \in Cuts(k) :
       files = LogTree(s, c)
  /\ implOrder = ConfigSrc.implOrder
  /\ implMap = ConfigSrc.implMap
  /\ Start

\* roots with at most one line, where the hosts without lines have no
\* directory or no data file
InitSparse ==
  /\ \E k \in 0..1 : \E s \in [1..k -> LogLines] : \E c \in Cuts(k) :
       \E layout \in Layouts : files = Layout(LogTree(s, c), layout)
  /\ implOrder = ConfigSrc.implOrder
  /\ implMap = ConfigSrc.implMap
  /\ Start

\* benchmark results under each configuration
InitResults ==
  /\ \E ps \in Everywhere \cup FirstOnly \cup Nowhere :
       \E pd \in Everywhere \cup FirstOnly \cup Nowhere :
         \E pl \in Constant \cup Nowhere :
           files = ResultTree([i \in Impls |->
                      CASE i = SANDY -> ps [] i = DONNA -> pd [] OTHER -> pl])
  /\ \E config \in Configs :
       /\ implOrder = config.implOrder
       /\ implMap = config.implMap
  /\ Start

Init == InitLogs \/ InitSparse \/ InitResults

\* readdirSync(dir).filter((hostname) => machineOrder.includes(hostname))
ReadDir ==
  /\ pc = "readdirSync"
  /\ todo' = {hostname \in DOMAIN files : hostname \in Machines}
  /\ pc' = "reduce"
  /\ UNCHANGED <<files, implOrder, implMap, data, stdout, table>>

\* one call of the reduce callback; readFileSync throws without a data file.
\* The order of the entries of readdirSync is left open.
ReduceHost ==
  /\ pc = "reduce"
  /\ \E hostname \in todo :
       IF files[hostname].hasData
         THEN /\ data' = reduceHost(data, files[hostname].lines)
              /\ todo' = todo \ {hostname}
              /\ pc' = pc
         ELSE /\ pc' = "error"
              /\ UNCHANGED <<data, todo>>
  /\ UNCHANGED <<files, implOrder, implMap, stdout, table>>

\* console.log(table_start(CAPTION, LABEL))
PrintTableStart ==
  /\ pc = "reduce"
  /\ todo = {}
  /\ stdout' = Append(stdout, "table_start")
  /\ pc' = "genBarTable"
  /\ UNCHANGED <<files, implOrder, implMap, todo, data, table>>

\* console.log(genBarTable())
PrintBarTable ==
  /\ pc = "genBarTable"
  /\ IF genBarTableThrows
       THEN /\ pc' = "error"
            /\ UNCHANGED <<stdout, table>>
       ELSE /\ table' = genBarTable(data)
            /\ stdout' = Append(stdout, "genBarTable")
            /\ pc' = "TABLE_END"
  /\ UNCHANGED <<files, implOrder, implMap, todo, data>>

\* console.log(TABLE_END)
PrintTableEnd ==
  /\ pc = "TABLE_END"
  /\ stdout' = Append(stdout, "TABLE_END")
  /\ pc' = "done"
  /\ UNCHANGED <<files, implOrder, implMap, todo, data, table>>

Next ==
  \/ ReadDir
  \/ ReduceHost
  \/ PrintTableStart
  \/ PrintBarTable
  \/ PrintTableEnd

Spec == Init /\ [][Next]_vars

-----------------------------------------------------------------------------
(* What the claims speak about                                             *)

\* the reduce over the host directories has ended
Loaded == pc \in {"genBarTable", "TABLE_END", "done"} \/ (pc = "reduce" /\ todo = {})

\* genBarTable() has returned and its text is on standard output
Rendered == pc \in {"TABLE_END", "done"}

\* the host directories whose data file has been reduced
LoadedDirs ==
  IF pc = "readdirSync" THEN {}
  ELSE {h \in (DOMAIN files \cap Machines) \ todo : files[h].hasData}

\* the parsed observations of the directory dir
ObservationsOf(dir) ==
  LET recs == datafile(files[dir].lines)
  IN  {[dir |-> dir, impl |-> recs[k].impl, machine |-> recs[k].machine,
        cycles |-> recs[k].cycles] : k \in 1..Len(recs)}

Observations == UNION {ObservationsOf(dir) : dir \in LoadedDirs}

Has(i, m) == i \in DOMAIN data /\ m \in DOMAIN data[i]

-----------------------------------------------------------------------------
(* C7: no fabricated data.  Every entry (I, H) -> c of the matrix, at any   *)
(* moment of the reduction, is carried by a parsed observation of a data   *)
(* file already reduced: implementation I, host field H, cycle count c.    *)

C7_NoFabricatedData ==
  \A i \in DOMAIN data : \A m \in DOMAIN data[i] :
    \E o \in Observations : o.impl = i /\ o.machine = m /\ o.cycles = data[i][m]

\* an implementation has entries for two hosts, with different counts
C7_Witness ==
  /\ Loaded
  /\ \E i \in DOMAIN data : \E m1, m2 \in DOMAIN data[i] : data[i][m1] < data[i][m2]

-----------------------------------------------------------------------------
(* C1: after the whole input has been reduced, every (implementation, host *)
(* field) pair carried by a parsed observation has an entry, and the entry *)
(* is the least cycle count of all observations with that pair, whichever  *)
(* data file or line they come from.                                       *)

C1_MinimumOverAllObservations ==
  Loaded =>
    \A o \in Observations :
      /\ Has(o.impl, o.machine)
      /\ \A o2 \in Observations :
           (o2.impl = o.impl /\ o2.machine = o.machine)
             => data[o.impl][o.machine] <= o2.cycles

-----------------------------------------------------------------------------
(* C3: a line with status "unknown" never produces an observation: the     *)
(* matrix is the one the same files give with these lines removed (for the *)
(* order in which the directories were reduced, whichever it was).         *)

WithoutUnknown(lines) ==
  LET known(line) == line.status # "unknown" IN SelectSeq(lines, known)

RECURSIVE ReduceInOrder(_, _)
ReduceInOrder(acc, hosts) ==
  IF hosts = <<>> THEN acc
  ELSE ReduceInOrder(reduceHost(acc, WithoutUnknown(files[Head(hosts)].lines)),
                     Tail(hosts))

Orders(S) ==
  {o \in [1..Cardinality(S) -> S] : \A a, b \in 1..Cardinality(S) : o[a] = o[b] => a = b}

C3_UnknownLinesIgnored ==
  Loaded => \E o \in Orders(LoadedDirs) : data = ReduceInOrder(<<>>, o)

-----------------------------------------------------------------------------
(* C4: every record is tagged with the directory it was read from: each    *)
(* host key of the matrix is a host of machineOrder whose directory exists *)
(* and has been read, and the value under host H is the cycle count of a   *)
(* line of the data file of directory H.                                   *)

C4_TaggedWithDirectory ==
  \A i \in DOMAIN data : \A m \in DOMAIN data[i] :
    /\ m \in LoadedDirs
    /\ \E o \in ObservationsOf(m) : o.impl = i /\ o.cycles = data[i][m]

-----------------------------------------------------------------------------
(* Sections of the rendered table                                          *)

Sections == 1..Len(implOrder)

SectionImpls(s) == {implOrder[s][k] : k \in 1..Len(implOrder[s])}

Rows(s) == table.meat[s].rows

Complete(i) == i \in DOMAIN data /\ Machines \subseteq DOMAIN data[i]

-----------------------------------------------------------------------------
(* C2: when an implementation of a section is in the matrix but lacks a    *)
(* value for a host of machineOrder, the run ends in a failure: the table  *)
(* is never rendered with a row for it.                                    *)

C2_IncompleteDataFails ==
  (\E s \in Sections : \E i \in SectionImpls(s) : i \in DOMAIN data /\ ~Complete(i))
    => ~Rendered

-----------------------------------------------------------------------------
(* C6: when a section names an implementation that is not in implMap, the  *)
(* run stops with an error and nothing has been written to standard output *)

-----------------------------------------------------------------------------
(* C5: in one section and one host column, when there are rows and every   *)
(* row has a value for the host, exactly one cell is marked as smallest    *)
(* and it holds the least value of the section for that host.              *)

ColumnFilled(s, m) ==
  /\ Rows(s) # <<>>
  /\ \A k \in 1..Len(Rows(s)) : Has(Rows(s)[k].iname, m)

Marked(s, m) == {k \in 1..Len(Rows(s)) : Rows(s)[k].cells[m].isSmallest}

Least(s, m) ==
  {k \in 1..Len(Rows(s)) :
     \A j \in 1..Len(Rows(s)) : data[Rows(s)[k].iname][m] <= data[Rows(s)[j].iname][m]}

C5_ExactlyOneSmallest ==
  Rendered =>
    \A s \in Sections : \A m \in Machines :
      ColumnFilled(s, m) =>
        /\ Cardinality(Marked(s, m)) = 1
        /\ Marked(s, m) \subseteq Least(s, m)

\* C5 as amended: under the same conditions at least one cell is marked, and
\* the marked cells are exactly the cells that hold the least value of the
\* section for that host (all of them when several rows tie).
C5_SmallestAreTheLeast ==
  Rendered =>
    \A s \in Sections : \A m \in Machines :
      ColumnFilled(s, m) =>
        /\ Marked(s, m) # {}
        /\ Marked(s, m) = Least(s, m)

\* two rows of a section tie for the least value of a host and both are
\* marked, and in some column one row is marked and another is not
C5_Witness ==
  /\ Rendered
  /\ \E s \in Sections : \E m \in Machines :
       /\ ColumnFilled(s, m)
       /\ Cardinality(Marked(s, m)) = 2
  /\ \E s \in Sections : \E m \in Machines :
       /\ ColumnFilled(s, m)
       /\ Marked(s, m) # {}
       /\ Marked(s, m) # 1..Len(Rows(s))

-----------------------------------------------------------------------------
(* C8: the rows of a section, with their marks and ratios, and the minima  *)
(* they are compared with, depend only on the implementations of that      *)
(* section: they are what the matrix without every other implementation    *)
(* gives.                                                                  *)

Restrict(acc, S) == [i \in DOMAIN acc \cap S |-> acc[i]]

C8_SectionLocal ==
  Rendered =>
    \A s \in Sections :
      LET own == Restrict(data, SectionImpls(s))
          d == filtered(implOrder[s], data)
          dOwn == filtered(implOrder[s], own)
      IN  /\ table.meat[s] = section(implOrder[s], own)
          /\ smallestImplByMachine(d, data) = smallestImplByMachine(dOwn, own)
          /\ smallestMean(d, data) = smallestMean(dOwn, own)

\* an implementation of no or another section has, for some host, a value
\* below every value of a section that has rows
C8_Witness ==
  /\ Rendered
  /\ \E s \in Sections : \E m \in Machines : \E i \in DOMAIN data \ SectionImpls(s) :
       /\ ColumnFilled(s, m)
       /\ Has(i, m)
       /\ \A k \in 1..Len(Rows(s)) : data[i][m] < data[Rows(s)[k].iname][m]

-----------------------------------------------------------------------------
(* C9: for an implementation with a value for every host of machineOrder,  *)
(* the summary is the N-th root of the product of its N values (N the      *)
(* number of hosts of machineOrder): summary^N is the product, and the     *)
(* summary is the integer r when the product is r^N.  A row marked as      *)
(* best in the summary column has the least product of its section.        *)

RECURSIVE Product(_, _)
Product(byMachine, S) ==
  IF S = {} THEN 1
  ELSE LET m == CHOOSE x \in S : TRUE
       IN  byMachine[m] * Product(byMachine, S \ {m})

Summary(s, i) == meanByImplementation(filtered(implOrder[s], data), data)[i]

C9_GeometricMean ==
  Rendered =>
    \A s \in Sections : \A k \in 1..Len(Rows(s)) :
      LET i == Rows(s)[k].iname
          N == Cardinality(Machines)
          P == Product(data[i], Machines)
          r == IRoot(P, N)
      IN  /\ Complete(i) =>
               /\ IsNumber(Summary(s, i))
               /\ Pow(Summary(s, i).val, N) = Pow(P, Summary(s, i).deg)
               /\ Pow(r, N) = P => EqJS(Summary(s, i), Num(r))
          /\ Rows(s)[k].mean.isSmallest =>
               /\ Complete(i)
               /\ \A j \in 1..Len(Rows(s)) :
                    /\ Complete(Rows(s)[j].iname)
                    /\ P <= Product(data[Rows(s)[j].iname], Machines)

\* a row whose product is a power r^N, r > 1, a row whose product is no such
\* power, and a section where one of two complete rows is marked as best
C9_Witness ==
  /\ Rendered
  /\ \E s \in Sections : \E k \in 1..Len(Rows(s)) :
       LET i == Rows(s)[k].iname
           P == Product(data[i], Machines)
       IN  /\ Complete(i)
           /\ P > 1
           /\ Pow(IRoot(P, Cardinality(Machines)), Cardinality(Machines)) = P
  /\ \E s \in Sections : \E k \in 1..Len(Rows(s)) :
       LET i == Rows(s)[k].iname
       IN  /\ Complete(i)
           /\ Pow(IRoot(Product(data[i], Machines), Cardinality(Machines)),
                  Cardinality(Machines)) # Product(data[i], Machines)
  /\ \E s \in Sections : \E k, j \in 1..Len(Rows(s)) :
       /\ Rows(s)[k].mean.isSmallest
       /\ ~Rows(s)[j].mean.isSmallest
       /\ Complete(Rows(s)[j].iname)

-----------------------------------------------------------------------------
(* C10: the rows of a section are the implementations of its configured    *)
(* list that have at least one entry in the matrix, in the configured      *)
(* order; an implementation without any observation has no row.            *)

HasEntry(i) == i \in DOMAIN data /\ DOMAIN data[i] # {}

RowNames(s) == [k \in 1..Len(Rows(s)) |-> Rows(s)[k].iname]

C10_RowsAreThePresent ==
  Rendered =>
    /\ Len(table.meat) = Len(implOrder)
    /\ \A s \in Sections : RowNames(s) = SelectSeq(implOrder[s], HasEntry)

\* a section renders two rows in order, and a section drops a listed
\* implementation while an implementation with values for some hosts only has a row
C10_Witness ==
  /\ Rendered
  /\ \E s \in Sections : Len(Rows(s)) = 2
  /\ \E s \in Sections : Len(Rows(s)) < Len(implOrder[s])
  /\ \E s \in Sections : \E k \in 1..Len(Rows(s)) : ~Complete(Rows(s)[k].iname)

====
